---- MODULE Spec2Model ----
(***************************************************************************)
(* Model of pbcoretools/tasks/converters.py: the tool-contract wrappers    *)
(* around bax2bam, bam2bam, bam2fasta/bam2fastq, echo and dataset create.  *)
(* One conversion call runs per behaviour; external processes and the      *)
(* pbcore dataset library are collaborators whose outcomes (exit status,   *)
(* files produced, exceptions) are chosen nondeterministically.            *)
(***************************************************************************)
EXTENDS Integers, Sequences, FiniteSets

(* ---- bounds of the model ---- *)
MaxFiles == 3       \* bax files in an input HdfSubreadSet
MaxRes == 2         \* resources in one bax2bam output dataset
MaxPairs == 2       \* external resources in an input SubreadSet
MaxRecs == 3        \* records bam2fastx extracts
MaxSeqLen == 3      \* length of a record's sequence

(* ---- program constants ---- *)
CmdNotFound == 127

VARIABLES
    task,           \* which run_* function this call is
    inp,            \* the call's arguments and the datasets they name
    pc,             \* position inside the function
    result,         \* [kind |-> "none" | "return" | "raise", code, exc]
    fs,             \* files the call has caused to exist: path -> content
    temps,          \* paths of temporary / intermediate files created
    calls,          \* run_cmd invocations so far, in order
    idx,            \* loop index (next resource / pair / record)
    ds_out_files,   \* run_bax_to_bam: collected intermediate dataset paths
    ds_new,         \* run_bam_to_bam: resources of the dataset being built
    fastx_out       \* run_bam_to_fastx: records written so far

vars == <<task, inp, pc, result, fs, temps, calls, idx, ds_out_files, ds_new,
          fastx_out>>

(* ---- generic helpers ---- *)
NoDesc == "<none>"
NoFile == [dir |-> "<none>", base |-> <<>>]
ExitCodes == {0, 1, CmdNotFound}

Range(s) == {s[i] : i \in 1..Len(s)}

InjSeqs(S, n) ==
    UNION {{s \in [1..k -> S] : \A i, j \in 1..k : i # j => s[i] # s[j]}
           : k \in 0..n}

SeqsUpTo(S, n) == UNION {[1..k -> S] : k \in 0..n}

RECURSIVE Concat(_)
Concat(ss) == IF ss = <<>> THEN <<>> ELSE Head(ss) \o Concat(Tail(ss))

RECURSIVE Sum(_)
Sum(ns) == IF ns = <<>> THEN 0 ELSE Head(ns) + Sum(Tail(ns))

Returned(code) == [kind |-> "return", code |-> code, exc |-> "-"]
Raised(exc) == [kind |-> "raise", code |-> -1, exc |-> exc]
Pending == [kind |-> "none", code |-> -1, exc |-> "-"]

WriteFile(files, path, content) ==
    [p \in DOMAIN files \cup {path} |-> IF p = path THEN content ELSE files[p]]

RemoveFile(files, path) == [p \in DOMAIN files \ {path} |-> files[p]]

\* tempfile.NamedTemporaryFile(...).name: a fresh name per call; the file
\* object is dropped at once, so the file itself is gone again.
TmpNames == <<"tmpA", "tmpB", "tmpC", "tmpD", "tmpE", "tmpF", "tmpG", "tmpH">>
NamedTemporaryFile(used, suffix) ==
    LET n == Cardinality({p \in used : p.dir = "/tmp"})
    IN  [dir |-> "/tmp", base |-> <<TmpNames[n + 1]>> \o suffix]

(* ---- paths: [dir, base], base = the dot-separated components ---- *)
dirname(path) == path.dir
join(dir, base) == [dir |-> dir, base |-> base]

\* ".".join(name.split(".")[:-2])
StripLast2(base) == SubSeq(base, 1, Len(base) - 2)

\* str.endswith(".bax.h5")
EndsWithBaxH5(path) ==
    /\ Len(path.base) >= 3
    /\ SubSeq(path.base, Len(path.base) - 1, Len(path.base)) = <<"bax", "h5">>

(***************************************************************************)
(* run_bax_to_bam / _run_bax_to_bam                                        *)
(***************************************************************************)
MovieNames == {"m1", "m2"}

\* where bax.h5 files can be: two of them share a base name
BaxPaths ==
    {[dir |-> "/a", base |-> <<"m1", "1", "bax", "h5">>],
     [dir |-> "/a", base |-> <<"m2", "1", "bax", "h5">>],
     [dir |-> "/a", base |-> <<"m3", "1", "bax", "h5">>],
     [dir |-> "/b", base |-> <<"m1", "1", "bax", "h5">>]}

\* a bax.h5 file: where it is, and the movieName its reader reports
BaxFiles == {[path |-> p, movieName |-> m] : p \in BaxPaths, m \in MovieNames}

HdfXml == [dir |-> "/in", base |-> <<"in", "hdfsubreadset", "xml">>]
BaxOutput == [dir |-> "/out", base |-> <<"out", "subreadset", "xml">>]

\* the input HdfSubreadSet: an XML naming bax files, or one bax file itself
BaxInputs ==
    {[input_file_name |-> HdfXml, output_file_name |-> BaxOutput,
      files |-> f, name |-> "lambda_rsii", desc |-> d,
      metadata |-> {"in_meta"}]
        : f \in {s \in InjSeqs(BaxFiles, MaxFiles) :
                    \A i, j \in 1..Len(s) : i # j => s[i].path # s[j].path},
          d \in {NoDesc, "in_desc"}}
    \cup
    {[input_file_name |-> b.path, output_file_name |-> BaxOutput,
      files |-> <<b>>, name |-> "lambda_rsii", desc |-> NoDesc,
      metadata |-> {"in_meta"}] : b \in BaxFiles}

\* faulty variant: one conversion per movie identity instead of one per file
toExternalFiles_OnePerMovie(ds) ==
    LET first == {i \in 1..Len(ds.files) :
                    \A j \in 1..(i - 1) : ds.files[j].movieName # ds.files[i].movieName}
        pick[i \in 0..Len(ds.files)] ==
            IF i = 0 THEN <<>>
            ELSE IF i \in first THEN Append(pick[i - 1], ds.files[i].path)
            ELSE pick[i - 1]
    IN  pick[Len(ds.files)]

\* ds_in.toExternalFiles()
toExternalFiles(ds) == [i \in 1..Len(ds.files) |-> ds.files[i].path]

\* movies = set(rr.movieName for rr in ds_in.resourceReaders())
Movies(ds) == {ds.files[i].movieName : i \in 1..Len(ds.files)}

\* faulty variant: fan out as soon as there is a movie at all
IsMultiMovie_AtLeastOne(ds) == Cardinality(Movies(ds)) >= 1

\* line 62: len(movies) > 1
IsMultiMovie(ds) == Cardinality(Movies(ds)) > 1

\* os.path.join(out_dir, ".".join(basename(bax).split(".")[:-2]) + ".hdfsubreadset.xml")
IntermediatePath(output_file_name, bax_file) ==
    join(dirname(output_file_name),
         StripLast2(bax_file.base) \o <<"hdfsubreadset", "xml">>)

\* what one bax2bam run can do: exit status, resources written, and whether
\* the written dataset turns out indexed (assertIndexed)
BaxOutcomes ==
    {[exit_code |-> 0, nres |-> n, indexed |-> x] : n \in 1..MaxRes, x \in BOOLEAN}
    \cup {[exit_code |-> e, nres |-> 0, indexed |-> FALSE] : e \in ExitCodes \ {0}}

\* the --xml argument: a temporary HdfSubreadSet XML for a bare bax.h5 input
BaxXmlArg(input_file_name, used) ==
    IF EndsWithBaxH5(input_file_name)
    THEN NamedTemporaryFile(used, <<"hdfsubreadset", "xml">>)
    ELSE input_file_name

\* the dataset bax2bam writes at --output-xml
Bax2BamDataset(call_no, nres) ==
    [writer |-> "bax2bam", name |-> "bax2bam", desc |-> NoDesc,
     metadata |-> {"bax2bam_meta"},
     res |-> [j \in 1..nres |-> [conv |-> call_no, n |-> j]]]

\* _run_bax_to_bam(input_file_name, output_file_name) under outcome o:
\* the files, temporaries and call log afterwards, and how it ended
_run_bax_to_bam(input_file_name, output_file_name, o) ==
    LET xml == BaxXmlArg(input_file_name, temps)
        madeTmp == xml # input_file_name
        fs1 == IF madeTmp
               THEN WriteFile(fs, xml, [writer |-> "HdfSubreadSet.write"])
               ELSE fs
        call == [prog |-> "bax2bam", input |-> input_file_name,
                 o |-> StripLast2(output_file_name.base),
                 output_xml |-> output_file_name, xml |-> xml,
                 exit_code |-> o.exit_code, nres |-> o.nres]
        fs2 == IF o.exit_code = 0
               THEN WriteFile(fs1, output_file_name,
                              Bax2BamDataset(Len(calls) + 1, o.nres))
               ELSE fs1
    IN  [fs |-> fs2,
         temps |-> IF madeTmp THEN temps \cup {xml} ELSE temps,
         calls |-> Append(calls, call),
         end |-> IF o.exit_code # 0 THEN Returned(o.exit_code)
                 ELSE IF ~o.indexed THEN Raised("IOError")
                 ELSE Returned(0)]

\* SubreadSet(*ds_out_files): the resources of the datasets at those paths,
\* concatenated in order
MergeDatasets(files, paths) ==
    [writer |-> "merge", name |-> "merged", desc |-> NoDesc,
     metadata |-> UNION {files[paths[i]].metadata : i \in 1..Len(paths)},
     res |-> Concat([i \in 1..Len(paths) |-> files[paths[i]].res])]

\* faulty variant: description and metadata copied whether or not there is one
CopyIdentity_Always(ds, ds_in) ==
    [ds EXCEPT !.name = ds_in.name, !.desc = ds_in.desc,
               !.metadata = @ \cup ds_in.metadata]

\* lines 75-78: name always, description and metadata only if described
CopyIdentity(ds, ds_in) ==
    LET named == [ds EXCEPT !.name = ds_in.name]
    IN  IF ds_in.desc # NoDesc
        THEN [named EXCEPT !.desc = ds_in.desc,
                           !.metadata = @ \cup ds_in.metadata]
        ELSE named

\* faulty variant: a failed conversion is not noticed
ConversionFailed_Never(rc) == FALSE

\* line 70: rc != 0
ConversionFailed(rc) == rc # 0

BaxUnchanged == UNCHANGED <<task, inp, ds_new, fastx_out>>

\* line 58-62 and 80-81: open the input, count movies; the single-movie path
BaxSingle ==
    /\ task = "bax2bam" /\ pc = "start"
    /\ ~IsMultiMovie(inp)
    /\ \E o \in BaxOutcomes :
        LET r == _run_bax_to_bam(inp.input_file_name, inp.output_file_name, o)
        IN  /\ fs' = r.fs /\ temps' = r.temps /\ calls' = r.calls
            /\ result' = r.end
            /\ pc' = IF r.end.kind = "raise" THEN "raised" ELSE "done"
    /\ UNCHANGED <<idx, ds_out_files>>
    /\ BaxUnchanged

\* line 62-64: more than one movie, enter the fan-out
BaxFanOutBegin ==
    /\ task = "bax2bam" /\ pc = "start"
    /\ IsMultiMovie(inp)
    /\ pc' = "fanout" /\ idx' = 1 /\ ds_out_files' = <<>>
    /\ UNCHANGED <<result, fs, temps, calls>>
    /\ BaxUnchanged

\* lines 65-73: one iteration of the loop over ds_in.toExternalFiles()
BaxFanOutStep ==
    /\ task = "bax2bam" /\ pc = "fanout"
    /\ idx <= Len(toExternalFiles(inp))
    /\ \E o \in BaxOutcomes :
        LET bax_file == toExternalFiles(inp)[idx]
            output_file_name_tmp ==
                IntermediatePath(inp.output_file_name, bax_file)
            r == _run_bax_to_bam(bax_file, output_file_name_tmp, o)
        IN  /\ fs' = r.fs /\ calls' = r.calls
            /\ temps' = IF o.exit_code = 0
                        THEN r.temps \cup {output_file_name_tmp}
                        ELSE r.temps
            /\ IF r.end.kind = "raise"
               THEN /\ pc' = "raised" /\ result' = r.end
                    /\ UNCHANGED <<idx, ds_out_files>>
               ELSE IF ConversionFailed(r.end.code)
               THEN /\ pc' = "done" /\ result' = r.end
                    /\ UNCHANGED <<idx, ds_out_files>>
               ELSE /\ ds_out_files' = Append(ds_out_files, output_file_name_tmp)
                    /\ idx' = idx + 1
                    /\ UNCHANGED <<pc, result>>
    /\ BaxUnchanged

\* lines 74-79 and 82: merge, copy name/description/metadata, write, return 0
BaxMerge ==
    /\ task = "bax2bam" /\ pc = "fanout"
    /\ idx > Len(toExternalFiles(inp))
    /\ fs' = WriteFile(fs, inp.output_file_name,
                       CopyIdentity(MergeDatasets(fs, ds_out_files), inp))
    /\ pc' = "done" /\ result' = Returned(0)
    /\ UNCHANGED <<temps, calls, idx, ds_out_files>>
    /\ BaxUnchanged

(***************************************************************************)
(* run_bam_to_bam                                                          *)
(***************************************************************************)
ScoreModes == {"symmetric", "asymmetric", "bogus"}

\* the BarcodeSet: the FASTA files behind it
BarcodeSets == {<<>>, <<"bc1.fasta">>, <<"bc1.fasta", "bc2.fasta">>}

SubreadSetXml == [dir |-> "/in", base |-> <<"in", "subreadset", "xml">>]
BarcodeSetXml == [dir |-> "/in", base |-> <<"bc", "barcodeset", "xml">>]
BamOutput == [dir |-> "/out", base |-> <<"out", "subreadset", "xml">>]

\* an external resource of the input SubreadSet: ext_res.bam, ext_res.scraps
\* (dir "" is a relative path; NoFile is None)
ExtResChoices ==
    {[bam |-> [dir |-> "", base |-> <<"m1", "subreads", "bam">>],
      scraps |-> [dir |-> "", base |-> <<"m1", "scraps", "bam">>]],
     [bam |-> [dir |-> "", base |-> <<"m1", "subreads", "bam">>],
      scraps |-> NoFile],
     [bam |-> [dir |-> "/abs", base |-> <<"m2", "subreads", "bam">>],
      scraps |-> [dir |-> "/abs", base |-> <<"m2", "scraps", "bam">>]],
     [bam |-> [dir |-> "/abs", base |-> <<"m2", "subreads", "bam">>],
      scraps |-> NoFile],
     [bam |-> [dir |-> "", base |-> <<"m3", "bam">>],
      scraps |-> [dir |-> "/abs", base |-> <<"m3", "scraps", "bam">>]],
     [bam |-> NoFile, scraps |-> NoFile]}

BamInputs ==
    {[subread_set_file |-> SubreadSetXml, barcode_set_file |-> BarcodeSetXml,
      output_file_name |-> BamOutput, nproc |-> 1, score_mode |-> m,
      barcodes |-> b, externalResources |-> e, filters |-> "filters_in"]
        : m \in ScoreModes, b \in BarcodeSets,
          e \in SeqsUpTo(ExtResChoices, MaxPairs)}

\* faulty variant: no check of the score mode
ScoreModeOk_Any(score_mode) == TRUE

\* line 87
ScoreModeOk(score_mode) == score_mode \in {"asymmetric", "symmetric"}

\* line 90
MultiFasta(barcodes) == Len(barcodes) > 1

\* lines 87-92: how the checks before the loop end ("ok" = go on)
BamPreamble(i) ==
    IF ~ScoreModeOk(i.score_mode) THEN "ValueError"
    ELSE IF MultiFasta(i.barcodes) THEN "NotImplementedError"
    ELSE IF Len(i.barcodes) = 0 THEN "IndexError"
    ELSE "ok"

isabs(path) == path.dir # ""

\* lines 103-107
Resolve(subread_set_file, path) ==
    IF isabs(path) THEN path ELSE join(dirname(subread_set_file), path.base)

\* re.sub(".subreads.bam", "_barcoded", op.basename(subreads_bam))
SubBarcoded(base) ==
    IF Len(base) >= 3 /\ SubSeq(base, Len(base) - 1, Len(base)) = <<"subreads", "bam">>
    THEN SubSeq(base, 1, Len(base) - 2) \o <<"_barcoded">>
    ELSE base

\* lines 101-102
NewPrefix(output_file_name, subreads_bam) ==
    join(dirname(output_file_name), SubBarcoded(subreads_bam.base))

WithSuffix(path, suffix) == [path EXCEPT !.base = @ \o suffix]

\* lines 127-141: the rebuilt resource node
NewExtRes(new_prefix, barcode_set_file) ==
    LET subreads_bam == WithSuffix(new_prefix, <<"subreads", "bam">>)
        scraps_bam == WithSuffix(new_prefix, <<"scraps", "bam">>)
    IN  [resourceId |-> subreads_bam,
         metaType |-> "PacBio.SubreadFile.SubreadBamFile",
         indices |-> <<WithSuffix(subreads_bam, <<"pbi">>)>>,
         children |->
            <<[resourceId |-> scraps_bam,
               metaType |-> "PacBio.SubreadFile.ScrapsBamFile",
               indices |-> <<WithSuffix(scraps_bam, <<"pbi">>)>>],
              [resourceId |-> barcode_set_file,
               metaType |-> "PacBio.DataSet.BarcodeSet",
               indices |-> <<>>]>>]

\* what one bam2bam run can do: exit status, and whether the expected
\* <prefix>.subreads.bam is there afterwards
BamOutcomes ==
    {[exit_code |-> e, isfile |-> FALSE] : e \in ExitCodes}
    \cup {[exit_code |-> 0, isfile |-> TRUE]}

\* faulty variant: the splitter's exit status is ignored
SplitterFailed_Never(exit_code) == FALSE

\* lines 121-122: stop at a non-zero exit status
SplitterFailed(exit_code) == exit_code # 0

BamUnchanged == UNCHANGED <<task, inp, temps, ds_out_files, fastx_out>>

\* lines 87-94
BamValidate ==
    /\ task = "bam2bam" /\ pc = "start"
    /\ IF BamPreamble(inp) = "ok"
       THEN pc' = "pairs" /\ UNCHANGED result
       ELSE pc' = "raised" /\ result' = Raised(BamPreamble(inp))
    /\ idx' = 1 /\ ds_new' = <<>>
    /\ UNCHANGED <<fs, calls>>
    /\ BamUnchanged

\* lines 95-142: one iteration of the loop over ds.externalResources
BamPairStep ==
    /\ task = "bam2bam" /\ pc = "pairs"
    /\ idx <= Len(inp.externalResources)
    /\ LET ext_res == inp.externalResources[idx]
       IN  IF ext_res.bam = NoFile
           THEN /\ pc' = "raised" /\ result' = Raised("AssertionError")
                /\ UNCHANGED <<fs, calls, idx, ds_new>>
           ELSE IF ext_res.scraps = NoFile
           THEN /\ pc' = "raised" /\ result' = Raised("TypeError")
                /\ UNCHANGED <<fs, calls, idx, ds_new>>
           ELSE \E o \in BamOutcomes :
                LET new_prefix == NewPrefix(inp.output_file_name, ext_res.bam)
                    node == NewExtRes(new_prefix, inp.barcode_set_file)
                    call == [prog |-> "bam2bam", j |-> inp.nproc,
                             b |-> inp.nproc, o |-> new_prefix,
                             barcodes |-> inp.barcodes[1],
                             scoreMode |-> inp.score_mode,
                             subreads_bam |-> Resolve(inp.subread_set_file, ext_res.bam),
                             scraps_bam |-> Resolve(inp.subread_set_file, ext_res.scraps),
                             exit_code |-> o.exit_code]
                IN  /\ calls' = Append(calls, call)
                    /\ IF SplitterFailed(o.exit_code)
                       THEN /\ pc' = "done" /\ result' = Returned(o.exit_code)
                            /\ UNCHANGED <<fs, idx, ds_new>>
                       ELSE IF ~o.isfile
                       THEN /\ pc' = "raised" /\ result' = Raised("AssertionError")
                            /\ UNCHANGED <<fs, idx, ds_new>>
                       ELSE /\ fs' = WriteFile(fs, node.resourceId,
                                               [writer |-> "bam2bam"])
                            /\ ds_new' = Append(ds_new, node)
                            /\ idx' = idx + 1
                            /\ UNCHANGED <<pc, result>>
    /\ BamUnchanged

\* lines 144-149: carry the filters over, write the new dataset, return 0
BamWrite ==
    /\ task = "bam2bam" /\ pc = "pairs"
    /\ idx > Len(inp.externalResources)
    /\ fs' = WriteFile(fs, inp.output_file_name,
                       [writer |-> "run_bam_to_bam", res |-> ds_new,
                        filters |-> inp.filters])
    /\ pc' = "done" /\ result' = Returned(0)
    /\ UNCHANGED <<calls, idx, ds_new>>
    /\ BamUnchanged

(***************************************************************************)
(* run_bam_to_fastx                                                        *)
(***************************************************************************)
\* program_name, as the tokens "bam2" + format
Programs == {<<"bam2", "fasta">>, <<"bam2", "fastq">>}

FastxInput == [dir |-> "/in", base |-> <<"in", "subreadset", "xml">>]
FastxOutput == [dir |-> "/out", base |-> <<"out", "fastx">>]

FastxInputs ==
    {[program_name |-> p, input_file_name |-> FastxInput,
      output_file_name |-> FastxOutput, min_subread_length |-> m]
        : p \in Programs, m \in -1..MaxSeqLen}

\* base_ext = re.sub("bam2", "", program_name)
BaseExt(program_name) == SelectSeq(program_name, LAMBDA t : t # "bam2")

\* tmp_out = "{p}.{b}.gz".format(p=tmp_out_prefix, b=base_ext)
TmpOut(tmp_out_prefix, program_name) ==
    WithSuffix(tmp_out_prefix, BaseExt(program_name) \o <<"gz">>)

\* the records the extraction binary can write: rec i has len(rec.sequence)
RecordSeqs ==
    {[i \in 1..Len(ls) |-> [id |-> i, len |-> ls[i]]]
        : ls \in SeqsUpTo(0..MaxSeqLen, MaxRecs)}

\* faulty variant: <= where the code has <
KeepRecord_AtLeast(min_subread_length, rec) ==
    min_subread_length < 1 \/ min_subread_length <= rec.len

\* lines 189-190
KeepRecord(min_subread_length, rec) ==
    min_subread_length < 1 \/ min_subread_length < rec.len

\* what one run of the extraction binary can do: exit status, whether the
\* raw output is there afterwards, and the records in it
FxOutcomes ==
    {[exit_code |-> e, isfile |-> FALSE, recs |-> <<>>] : e \in ExitCodes}
    \cup {[exit_code |-> 0, isfile |-> TRUE, recs |-> r] : r \in RecordSeqs}

\* the path of this call's raw output (set by FxRun)
FxTmpOut == TmpOut(NamedTemporaryFile({}, <<>>), inp.program_name)

FxUnchanged == UNCHANGED <<task, inp, ds_out_files, ds_new>>

\* lines 157-173: run the extraction binary
FxRun ==
    /\ task = "bam2fastx" /\ pc = "start"
    /\ \E o \in FxOutcomes :
        LET e == o.exit_code
            isfile == o.isfile
            recs == o.recs
            tmp_out_prefix == NamedTemporaryFile(temps, <<>>)
            tmp_out == TmpOut(tmp_out_prefix, inp.program_name)
            call == [prog |-> inp.program_name, o |-> tmp_out_prefix,
                     input |-> inp.input_file_name, exit_code |-> e]
        IN  /\ calls' = Append(calls, call)
            /\ IF e # 0
               THEN /\ pc' = "done" /\ result' = Returned(e)
                    /\ UNCHANGED <<fs, temps>>
               ELSE IF ~isfile
               THEN /\ pc' = "raised" /\ result' = Raised("AssertionError")
                    /\ UNCHANGED <<fs, temps>>
               ELSE /\ fs' = WriteFile(fs, tmp_out,
                                       [writer |-> inp.program_name, recs |-> recs])
                    /\ temps' = temps \cup {tmp_out}
                    /\ pc' = "open" /\ UNCHANGED result
    /\ UNCHANGED <<idx, fastx_out>>
    /\ FxUnchanged

\* lines 185-187: open the raw output, the reader and the writer
FxOpen ==
    /\ task = "bam2fastx" /\ pc = "open"
    /\ \E ok \in BOOLEAN :
        IF ok
        THEN /\ fs' = WriteFile(fs, inp.output_file_name,
                                [writer |-> "fastx_writer", recs |-> <<>>])
             /\ pc' = "copy" /\ idx' = 1 /\ fastx_out' = <<>>
             /\ UNCHANGED result
        ELSE /\ pc' = "raised" /\ result' = Raised("IOError")
             /\ UNCHANGED <<fs, idx, fastx_out>>
    /\ UNCHANGED <<temps, calls>>
    /\ FxUnchanged

\* lines 188-191: one record read, and written if it passes the filter
FxCopyRecord ==
    /\ task = "bam2fastx" /\ pc = "copy"
    /\ idx <= Len(fs[FxTmpOut].recs)
    /\ \E ok \in BOOLEAN :
        IF ok
        THEN LET rec == fs[FxTmpOut].recs[idx]
                 out == IF KeepRecord(inp.min_subread_length, rec)
                        THEN Append(fastx_out, rec) ELSE fastx_out
             IN  /\ fastx_out' = out
                 /\ fs' = [fs EXCEPT ![inp.output_file_name].recs = out]
                 /\ idx' = idx + 1
                 /\ UNCHANGED <<pc, result>>
        ELSE /\ pc' = "raised" /\ result' = Raised("IOError")
             /\ UNCHANGED <<fs, idx, fastx_out>>
    /\ UNCHANGED <<temps, calls>>
    /\ FxUnchanged

\* lines 192-193: os.remove(tmp_out); return 0
FxFinish ==
    /\ task = "bam2fastx" /\ pc = "copy"
    /\ idx > Len(fs[FxTmpOut].recs)
    /\ fs' = RemoveFile(fs, FxTmpOut)
    /\ pc' = "done" /\ result' = Returned(0)
    /\ UNCHANGED <<temps, calls, idx, fastx_out>>
    /\ FxUnchanged

(***************************************************************************)
(* run_fasta_to_fofn, run_fasta_to_referenceset                            *)
(***************************************************************************)
FastaInputs ==
    {[input_file_name |-> [dir |-> "/in", base |-> <<"ref", "fasta">>],
      output_file_name |-> [dir |-> "/out", base |-> <<"out", x>>]]
        : x \in {"fofn", "xml"}}

\* faulty variant: fall back after any failure
NeedsFallback_AnyFailure(exit_code) == exit_code # 0

\* line 213
NeedsFallback(exit_code) == exit_code = CmdNotFound

SimpleUnchanged ==
    UNCHANGED <<task, inp, fs, temps, idx, ds_out_files, ds_new, fastx_out>>

\* lines 196-201
FofnRun ==
    /\ task = "fasta2fofn" /\ pc = "start"
    /\ \E e \in ExitCodes :
        /\ calls' = Append(calls, [prog |-> "echo", exit_code |-> e])
        /\ pc' = "done" /\ result' = Returned(e)
    /\ SimpleUnchanged

\* lines 204-213, and 220 when no fallback is needed
RefRunPrimary ==
    /\ task = "fasta2referenceset" /\ pc = "start"
    /\ \E e \in ExitCodes :
        /\ calls' = Append(calls, [prog |-> "dataset create", exit_code |-> e])
        /\ IF NeedsFallback(e)
           THEN pc' = "fallback" /\ UNCHANGED result
           ELSE pc' = "done" /\ result' = Returned(e)
    /\ SimpleUnchanged

\* lines 214-220
RefRunFallback ==
    /\ task = "fasta2referenceset" /\ pc = "fallback"
    /\ \E e \in ExitCodes :
        /\ calls' = Append(calls, [prog |-> "dataset.py create", exit_code |-> e])
        /\ pc' = "done" /\ result' = Returned(e)
    /\ SimpleUnchanged

(***************************************************************************)
(* specification                                                           *)
(***************************************************************************)
Init ==
    /\ \/ task = "bax2bam" /\ inp \in BaxInputs
       \/ task = "bam2bam" /\ inp \in BamInputs
       \/ task = "bam2fastx" /\ inp \in FastxInputs
       \/ task = "fasta2fofn" /\ inp \in FastaInputs
       \/ task = "fasta2referenceset" /\ inp \in FastaInputs
    /\ pc = "start"
    /\ result = Pending
    /\ fs = <<>>
    /\ temps = {}
    /\ calls = <<>>
    /\ idx = 1
    /\ ds_out_files = <<>>
    /\ ds_new = <<>>
    /\ fastx_out = <<>>

Next ==
    \/ BaxSingle
    \/ BaxFanOutBegin
    \/ BaxFanOutStep
    \/ BaxMerge
    \/ BamValidate
    \/ BamPairStep
    \/ BamWrite
    \/ FxRun
    \/ FxOpen
    \/ FxCopyRecord
    \/ FxFinish
    \/ FofnRun
    \/ RefRunPrimary
    \/ RefRunFallback

Spec == Init /\ [][Next]_vars

(***************************************************************************)
(* claims                                                                  *)
(***************************************************************************)
Finished == pc \in {"done", "raised"}
Succeeded == pc = "done" /\ result = Returned(0)
MultiMovieRun == task = "bax2bam" /\ Cardinality(Movies(inp)) > 1
ExitCodesOf(cs) == [k \in 1..Len(cs) |-> cs[k].exit_code]

\* the movie identity the reader of the file at `path` reports
MovieOf(path) ==
    inp.files[CHOOSE i \in 1..Len(inp.files) : inp.files[i].path = path].movieName

C2_SingleMovieDelegates ==
    (task = "bax2bam" /\ Cardinality(Movies(inp)) = 1 /\ pc # "start") =>
        /\ Finished
        /\ Len(calls) = 1
        /\ calls[1].input = inp.input_file_name
        /\ calls[1].output_xml = inp.output_file_name
        /\ ds_out_files = <<>>
        /\ \A p \in DOMAIN fs : p = inp.output_file_name \/ p.dir = "/tmp"
        /\ inp.output_file_name \in DOMAIN fs =>
              fs[inp.output_file_name].writer = "bax2bam"
        /\ pc = "done" => result = Returned(calls[1].exit_code)
        /\ pc = "raised" => calls[1].exit_code = 0

\* C2 witness: two files of one movie, converted in a single call
C2_Witness ==
    /\ task = "bax2bam" /\ Cardinality(Movies(inp)) = 1 /\ Len(inp.files) = 2
    /\ Succeeded /\ Len(calls) = 1

\* C3: the merged output of a successful multi-movie run has the input's
\* name; it has the input's description and metadata when the input has a
\* description, and neither of them when it has none.
C3_NameAndDescription ==
    (MultiMovieRun /\ Succeeded) =>
        LET out == fs[inp.output_file_name]
        IN  /\ out.name = inp.name
            /\ inp.desc # NoDesc =>
                  out.desc = inp.desc /\ inp.metadata \subseteq out.metadata
            /\ inp.desc = NoDesc =>
                  out.desc = NoDesc /\ inp.metadata \cap out.metadata = {}

\* C3 witness: a merged output carrying the input's description
C3_Witness ==
    /\ MultiMovieRun /\ Succeeded /\ inp.desc = "in_desc"
    /\ fs[inp.output_file_name].desc = "in_desc"
    /\ fs[inp.output_file_name].name = "lambda_rsii"

\* C4: in the multi-movie path a conversion that exits non-zero is the last
\* one, its status is what run_bax_to_bam returns, and the merged output is
\* not written.
C4_FailFast ==
    MultiMovieRun =>
        \A k \in 1..Len(calls) : calls[k].exit_code # 0 =>
            /\ k = Len(calls)
            /\ pc = "done" /\ result = Returned(calls[k].exit_code)
            /\ inp.output_file_name \notin DOMAIN fs

\* C4 witness: the second conversion failed after the first succeeded
C4_Witness ==
    /\ MultiMovieRun /\ Len(calls) = 2 /\ Len(inp.files) = 3
    /\ calls[1].exit_code = 0 /\ calls[2].exit_code = CmdNotFound
    /\ result = Returned(CmdNotFound)

\* C5: with a score mode other than "symmetric"/"asymmetric", or a barcode
\* set of more than one file, run_bam_to_bam raises before any external
\* process and writes no output dataset, whatever the input dataset holds.
C5_RejectsBeforeRunning ==
    (/\ task = "bam2bam" /\ pc # "start"
     /\ \/ inp.score_mode \notin {"symmetric", "asymmetric"}
        \/ Len(inp.barcodes) > 1) =>
        /\ pc = "raised"
        /\ result.exc = IF inp.score_mode \notin {"symmetric", "asymmetric"}
                        THEN "ValueError" ELSE "NotImplementedError"
        /\ calls = <<>>
        /\ DOMAIN fs = {}

\* C5 witness: a two-file barcode set rejected with pairs waiting
C5_Witness ==
    /\ task = "bam2bam" /\ pc = "raised"
    /\ inp.score_mode = "symmetric" /\ Len(inp.barcodes) = 2
    /\ Len(inp.externalResources) = 2
    /\ result = Raised("NotImplementedError")

\* C6 (as stated): a pair without scraps makes run_bam_to_bam raise before
\* any external process of that call is launched, and no output is written.
C6_MissingScrapsBeforeAnyProcess ==
    (task = "bam2bam" /\ result = Raised("TypeError")) =>
        /\ calls = <<>>
        /\ inp.output_file_name \notin DOMAIN fs

\* C7: a non-zero exit of the splitter ends the call with that status, no
\* later pair is split and no output dataset is written; the output is
\* written only after every pair's splitter exited 0, and holds one rebuilt
\* node per input pair, in input order.
C7_SplitterFailFast ==
    task = "bam2bam" =>
        /\ \A k \in 1..Len(calls) : calls[k].exit_code # 0 =>
              /\ k = Len(calls)
              /\ pc = "done" /\ result = Returned(calls[k].exit_code)
              /\ inp.output_file_name \notin DOMAIN fs
        /\ inp.output_file_name \in DOMAIN fs =>
              LET out == fs[inp.output_file_name].res
                  n == Len(inp.externalResources)
              IN  /\ Succeeded
                  /\ Len(calls) = n /\ Len(out) = n
                  /\ \A k \in 1..n :
                        /\ calls[k].exit_code = 0
                        /\ calls[k].o = [out[k].resourceId EXCEPT !.base =
                                            SubSeq(@, 1, Len(@) - 2)]
                        /\ calls[k].subreads_bam.base = inp.externalResources[k].bam.base
                        /\ out[k].resourceId.dir = inp.output_file_name.dir
                        /\ out[k].children[1].resourceId.base[1]
                              = inp.externalResources[k].bam.base[1]

\* C7 witness: the second pair's splitter failed after the first succeeded
C7_Witness ==
    /\ task = "bam2bam" /\ pc = "done" /\ Len(inp.externalResources) = 2
    /\ Len(calls) = 2 /\ calls[1].exit_code = 0 /\ calls[2].exit_code = 1
    /\ result = Returned(1) /\ Len(ds_new) = 1

C9_OneFallback ==
    /\ (task = "fasta2referenceset" /\ pc = "done") =>
          /\ Len(calls) \in {1, 2}
          /\ calls[1].prog = "dataset create"
          /\ Len(calls) = 2 <=> calls[1].exit_code = 127
          /\ Len(calls) = 2 => calls[2].prog = "dataset.py create"
          /\ result = Returned(calls[Len(calls)].exit_code)
    /\ (task = "fasta2fofn" /\ pc = "done") =>
          Len(calls) = 1 /\ result = Returned(calls[1].exit_code)
    /\ task # "fasta2referenceset" =>
          \A k \in 1..Len(calls) : calls[k].exit_code # 0 => k = Len(calls)

\* C9 witness: the fallback itself exits 127 and is not retried
C9_Witness ==
    /\ task = "fasta2referenceset" /\ pc = "done"
    /\ ExitCodesOf(calls) = <<127, 127>>
    /\ result = Returned(127)

\* C10 (as stated): when a call has returned or raised, none of the
\* temporary or intermediate files it created exists any more.
C10_TemporariesDeleted ==
    Finished => temps \cap DOMAIN fs = {}
====
